---- MODULE Spec2Model ----
(***************************************************************************)
(* web2pdf: the chunked model-task pipeline of src/lib/azure-openai.ts and *)
(* the server-sent-event routes that stream its progress to a caller.      *)
(*                                                                         *)
(* A run is one HTTP request to a streaming route.  JavaScript runs each   *)
(* handler to completion between two awaits, so an action of this model is *)
(* the code executed between two suspension points of one run: entering    *)
(* the route, a timer firing, a remote model call settling, and the        *)
(* promise callback that writes the terminal event.  The remote model is   *)
(* the environment: each call either returns a usable response ("ok") or   *)
(* fails ("fail": exception, timeout, empty or unrepairable response).     *)
(* Cancellation of the stream by the consumer is outside the model (the    *)
(* source installs no cancel handler).                                     *)
(***************************************************************************)
EXTENDS Integers, Sequences, FiniteSets, TLC

VARIABLES hasAzureConfig, client, run, probe

vars == <<hasAzureConfig, client, run, probe>>

\* Largest number of chunks the Splitter returns for a request of the model.
MaxChunks == 2

\* The concurrent pipeline invocations of the model.
Runs == {"A", "B"}

-----------------------------------------------------------------------------
(* Routes and their services *)

ProgressRoutes == {"typesetting-progress", "content-structure-progress", "apply-final-changes"}

StaticRoutes == {"website-generation-progress", "pdf-analysis-progress"}

Routes == ProgressRoutes \cup StaticRoutes

\* The service method each route calls.
ServiceOf(route) ==
  CASE route = "typesetting-progress" -> "improveTypesetting"
    [] route = "content-structure-progress" -> "generateContentStructure"
    [] route = "pdf-analysis-progress" -> "generateContentStructure"
    [] route = "apply-final-changes" -> "refineContent"
    [] route = "website-generation-progress" -> "generateCreativeWebsite"

\* Whether the route hands an onProgress callback to the service.
HasOnProgress(route) == route \in ProgressRoutes

\* The percentages of the fixed progress steps a static route writes itself.
StaticPercentages(route) ==
  IF route = "website-generation-progress" THEN <<20, 40, 60, 80, 90>>
  ELSE <<25, 50, 75, 90>>

ModelOutcomes == {"ok", "fail"}

\* The event field value of an event that carries no percentage, chunkIndex or totalChunks.
Absent == -1

-----------------------------------------------------------------------------
(* Results *)

\* The styling of a result that has none (only a TypesettingResponse has a styling object).
NoStyling == [css |-> "", layout |-> ""]

NoData ==
  [kind |-> "none", parts |-> <<>>, suggestions |-> <<>>, error |-> "", styling |-> NoStyling]

\* A TypesettingResponse: formattedContent, suggestions and styling {css, layout}.
StyledResult(parts, suggestions, styling) ==
  [kind |-> "result", parts |-> parts, suggestions |-> suggestions, error |-> "",
   styling |-> styling]

ResultData(parts, suggestions) == StyledResult(parts, suggestions, NoStyling)

ErrorData(message) ==
  [kind |-> "error", parts |-> <<>>, suggestions |-> <<>>, error |-> message,
   styling |-> NoStyling]

Returned(data) == [threw |-> FALSE, data |-> data]

Thrown(message) == [threw |-> TRUE, data |-> ErrorData(message)]

\* A piece of output content: which part of the document it covers and who produced it.
Part(scope, chunk, src) == [scope |-> scope, chunk |-> chunk, src |-> src]

UnavailableTypesetting == "Azure OpenAI service unavailable - using fallback formatting"

UnavailableRefinement == "Azure OpenAI service unavailable - using basic refinement"

\* The css the fallback builds for the document type, and its layout description.
BasicStyling == [css |-> "basic css", layout |-> "Basic document layout with proper typography"]

createFallbackTypesetting(scope, chunk) ==
  Returned(StyledResult(<<Part(scope, chunk, "fallback")>>,
    << "Basic formatting applied",
       "Consider customizing fonts and spacing for better appearance",
       UnavailableTypesetting >>,
    BasicStyling))

\* Returns an HTML string: there is no suggestions list in its result.
createBasicStructure(scope, chunk) ==
  Returned(ResultData(<<Part(scope, chunk, "fallback")>>, <<>>))

createFallbackWebsite(scope, chunk) ==
  Returned(ResultData(<<Part(scope, chunk, "fallback")>>,
    << "Mobile-first responsive design implemented with CSS Grid and Flexbox",
       "Modern CSS features used: Custom Properties, clamp(), responsive units",
       "Content-specific design applied based on document analysis",
       "Accessibility features: proper contrast, reduced motion support, semantic HTML",
       "Images optimized with responsive grid layout and hover effects",
       "Typography scales smoothly across all device sizes",
       "Touch-friendly interface with appropriate tap targets",
       "Print styles included for better document printing" >>))

\* request.userFeedback.toLowerCase() is a TypeError when userFeedback is not a string.
createFallbackRefinement(scope, chunk, feedbackIsString) ==
  IF ~feedbackIsString
  THEN Thrown("request.userFeedback.toLowerCase is not a function")
  ELSE Returned(ResultData(<<Part(scope, chunk, "fallback")>>,
    << UnavailableRefinement,
       "For advanced refinements, please ensure AI service is properly configured",
       "Consider manual adjustments to achieve desired results" >>))

\* The Fallback Generator of a service.
FallbackOf(service, scope, chunk, feedbackIsString) ==
  CASE service = "improveTypesetting" -> createFallbackTypesetting(scope, chunk)
    [] service = "generateContentStructure" -> createBasicStructure(scope, chunk)
    [] service = "generateCreativeWebsite" -> createFallbackWebsite(scope, chunk)
    [] service = "refineContent" -> createFallbackRefinement(scope, chunk, feedbackIsString)

\* The styling the model writes for a chunk: each response has a css and a layout of its own.
ModelStyling(chunk) ==
  [css |-> "ai css " \o ToString(chunk), layout |-> "ai layout " \o ToString(chunk)]

\* The parsed model response for one chunk.
ParsedResponse(service, scope, chunk) ==
  Returned(StyledResult(<<Part(scope, chunk, "ai")>>,
    IF service = "generateContentStructure" THEN <<>> ELSE <<"AI suggestion">>,
    IF service = "improveTypesetting" THEN ModelStyling(chunk) ELSE NoStyling))

-----------------------------------------------------------------------------
(* Result Combiners *)

RECURSIVE Flatten(_)
Flatten(seqs) == IF seqs = <<>> THEN <<>> ELSE Head(seqs) \o Flatten(Tail(seqs))

\* [...new Set(list)]: the first occurrence of each string, in order.
RECURSIVE Unique(_)
Unique(list) ==
  IF list = <<>> THEN <<>>
  ELSE LET rest == Unique(SubSeq(list, 1, Len(list) - 1))
           last == list[Len(list)]
       IN IF \E k \in 1..Len(rest) : rest[k] = last THEN rest ELSE Append(rest, last)

ChunkCountNote(n) == "Content was processed in " \o ToString(n) \o " chunks due to size"

\* The separator '\n\n' the combiners join the contents with.
BlankLine == Part("separator", 0, "\n\n")

\* contents.join(separator)
RECURSIVE join(_, _)
join(contents, separator) ==
  IF contents = <<>> THEN <<>>
  ELSE IF Len(contents) = 1 THEN contents[1]
  ELSE contents[1] \o <<separator>> \o join(Tail(contents), separator)

\* Mutant of PartsOf: the contents are joined from the last result to the first.
PartsOfReversed(results) ==
  join([k \in 1..Len(results) |-> results[Len(results) + 1 - k].parts], BlankLine)

\* results.map(result => result.formattedContent).join('\n\n')
PartsOf(results) == join([k \in 1..Len(results) |-> results[k].parts], BlankLine)

\* The pieces of a content between its separators.
ContentParts(parts) == SelectSeq(parts, LAMBDA part : part # BlankLine)

SuggestionsOf(results) == Flatten([k \in 1..Len(results) |-> results[k].suggestions])

\* The note the typesetting combiner appends to the layout of the first result.
LayoutNote(n) == " (processed in " \o ToString(n) \o " chunks)"

\* Mutant of combineTypesettingResults: the styling of the last result is kept, and the
\* layout note is appended for a single result too.
combineTypesettingResultsLastStyling(results) ==
  IF Len(results) = 0 THEN Thrown("No typesetting results to combine")
  ELSE Returned(StyledResult(PartsOf(results),
         Append(Unique(SuggestionsOf(results)), ChunkCountNote(Len(results))),
         [css |-> results[Len(results)].styling.css,
          layout |-> results[Len(results)].styling.layout \o LayoutNote(Len(results))]))

combineTypesettingResults(results) ==
  IF Len(results) = 0 THEN Thrown("No typesetting results to combine")
  ELSE IF Len(results) = 1 THEN Returned(results[1])
  ELSE Returned(StyledResult(PartsOf(results),
         Append(Unique(SuggestionsOf(results)), ChunkCountNote(Len(results))),
         [css |-> results[1].styling.css,
          layout |-> results[1].styling.layout \o LayoutNote(Len(results))]))

\* The placeholder string '<p>No content processed</p>'.
NoContentProcessed == ResultData(<<Part("placeholder", 0, "combiner")>>, <<>>)

combineContentStructureResults(results) ==
  IF Len(results) = 0 THEN Returned(NoContentProcessed)
  ELSE IF Len(results) = 1 THEN Returned(results[1])
  ELSE Returned(ResultData(PartsOf(results), <<>>))

combineRefinementResults(results) ==
  IF Len(results) = 0 THEN Thrown("No refinement results to combine")
  ELSE IF Len(results) = 1 THEN Returned(results[1])
  ELSE Returned(ResultData(PartsOf(results), Unique(SuggestionsOf(results))))

\* The combiner a service hands to processContentInChunks.
CombinerOf(service, results) ==
  CASE service = "improveTypesetting" -> combineTypesettingResults(results)
    [] service = "generateContentStructure" -> combineContentStructureResults(results)
    [] service = "refineContent" -> combineRefinementResults(results)

-----------------------------------------------------------------------------
(* Progress events *)

ProgressEvent(step, percentage, chunkIndex, totalChunks) ==
  [type |-> "progress", step |-> step, percentage |-> percentage,
   chunkIndex |-> chunkIndex, totalChunks |-> totalChunks, data |-> NoData]

TerminalEvent(type, step, percentage, data) ==
  [type |-> type, step |-> step, percentage |-> percentage,
   chunkIndex |-> Absent, totalChunks |-> Absent, data |-> data]

\* Mutant of progressPercentage: the fraction of the chunks that remain, (n - i) / n.
progressPercentageRemaining(i, n) == ((2 * (n - i) * 80 + n) \div (2 * n)) + 10

\* Mutant of progressPercentage: the share of chunk i counted from one, (i + 1) / n.
progressPercentageOneBased(i, n) == ((2 * (i + 1) * 80 + n) \div (2 * n)) + 10

\* Math.round((i / n) * 80) + 10
progressPercentage(i, n) == ((2 * i * 80 + n) \div (2 * n)) + 10

\* onProgress?.(...): the route's callback enqueues the event; without a callback nothing is written.
Emit(s, event) ==
  IF HasOnProgress(s.route) THEN [s EXCEPT !.events = Append(@, event)] ELSE s

\* controller.enqueue by the route itself.
Enqueue(s, event) == [s EXCEPT !.events = Append(@, event)]

-----------------------------------------------------------------------------
(* One pipeline invocation: its request-scoped state *)

\* route, feedbackIsString and contentChunks are the request: the route called, whether
\* userFeedback is a string, and the number of chunks chunkContent makes of its content.
\* resp, fallbackOutcomes and steps record what happened: the model outcomes so far, what
\* each Fallback Generator call returned or threw, and the continuations the run has executed;
\* combinerAt is the number of events of the run already written when its combiner was invoked,
\* callLog the chunk each model call of the run was issued for, in the order of the calls.
IdleRun ==
  [pc |-> "idle", route |-> "none", feedbackIsString |-> TRUE, contentChunks |-> 0,
   step |-> 0, totalChunks |-> 0, i |-> 0, inflight |-> {}, calls |-> 0,
   resp |-> <<>>, results |-> <<>>, events |-> <<>>, closed |-> 0,
   promise |-> "pending", value |-> NoData, splitterCalls |-> 0, combinerCalls |-> 0,
   combinerAt |-> 0, callLog |-> <<>>, fallbackOutcomes |-> <<>>, steps |-> 0]

\* !client || !hasAzureConfig
AzureAvailable(c, config) == c # "null" /\ config

\* Mutant of Settle: a rejection is lost (no .catch on the service promise), so no
\* callback ever runs for it.
SettleLosesRejection(s, outcome) ==
  IF outcome.threw THEN [s EXCEPT !.promise = "rejected", !.value = outcome.data, !.pc = "lost"]
  ELSE [s EXCEPT !.promise = "resolved", !.value = outcome.data, !.pc = "settled"]

\* The service promise settles: the route's callback is queued.
Settle(s, outcome) ==
  [s EXCEPT !.promise = IF outcome.threw THEN "rejected" ELSE "resolved",
            !.value = outcome.data,
            !.pc = "settled"]

\* Mutant of ChunksToStart: the processors of all remaining chunks are started at once
\* (a Promise.all over the chunks instead of an awaited loop).
ChunksToStartAll(s) == s.i..(s.totalChunks - 1)

\* The chunks whose processor the dispatcher invokes before it awaits: chunk i alone.
ChunksToStart(s) == {s.i}

\* The elements of a set of chunk indices in ascending order.
RECURSIVE Ascending(_)
Ascending(set) ==
  IF set = {} THEN <<>>
  ELSE LET least == CHOOSE x \in set : \A y \in set : x <= y
       IN <<least>> \o Ascending(set \ {least})

\* await processor(chunks[i], isLast, i): the processor issues its model call and the run suspends.
InvokeProcessor(s) ==
  [s EXCEPT !.inflight = @ \cup ChunksToStart(s),
            !.calls = @ + Cardinality(ChunksToStart(s)),
            !.callLog = @ \o Ascending(ChunksToStart(s)),
            !.pc = "awaiting"]

\* Mutant of DispatchChunk: the event carries the loop index, counted from zero, as chunkIndex.
DispatchChunkZeroBased(s) ==
  InvokeProcessor(Emit(s,
    ProgressEvent("Processing chunk " \o ToString(s.i + 1) \o " of " \o ToString(s.totalChunks) \o "...",
                  progressPercentage(s.i, s.totalChunks), s.i, s.totalChunks)))

\* The loop body up to its await: the per-chunk progress event, then the processor.
DispatchChunk(s) ==
  InvokeProcessor(Emit(s,
    ProgressEvent("Processing chunk " \o ToString(s.i + 1) \o " of " \o ToString(s.totalChunks) \o "...",
                  progressPercentage(s.i, s.totalChunks), s.i + 1, s.totalChunks)))

\* Mutant of CombineAndFinish: the 100% event is emitted before the combiner is invoked.
CombineAndFinishCompletesFirst(s) ==
  LET s95 == Emit(s, ProgressEvent("Combining results...", 95, s.totalChunks, s.totalChunks))
      s100 == Emit(s95, ProgressEvent("Processing complete", 100, s.totalChunks, s.totalChunks))
      combined == CombinerOf(ServiceOf(s.route), s.results)
  IN Settle([s100 EXCEPT !.combinerCalls = @ + 1, !.combinerAt = Len(s100.events)], combined)

\* After the loop: the 95% event, the combiner, and the 100% event when the combiner returned.
CombineAndFinish(s) ==
  LET s95 == Emit(s, ProgressEvent("Combining results...", 95, s.totalChunks, s.totalChunks))
      combined == CombinerOf(ServiceOf(s.route), s.results)
      called == [s95 EXCEPT !.combinerCalls = @ + 1, !.combinerAt = Len(s95.events)]
  IN IF combined.threw THEN Settle(called, combined)
     ELSE Settle(Emit(called, ProgressEvent("Processing complete", 100, s.totalChunks, s.totalChunks)),
                 combined)

\* Mutant of processContentInChunks: a single chunk goes through the loop like any other.
processContentInChunksAlwaysLoops(s) ==
  DispatchChunk([s EXCEPT !.totalChunks = s.contentChunks, !.splitterCalls = @ + 1])

\* processContentInChunks up to its first await.
processContentInChunks(s) ==
  LET n == s.contentChunks
      split == [s EXCEPT !.totalChunks = n, !.splitterCalls = @ + 1]
  IN IF n = 1
     THEN InvokeProcessor(Emit(split, ProgressEvent("Processing content...", 50, 1, 1)))
     ELSE DispatchChunk(split)

\* generateCreativeWebsite issues its one model call itself.
InvokeWebsiteModel(s) ==
  [s EXCEPT !.inflight = {0}, !.calls = @ + 1, !.callLog = Append(@, 0), !.pc = "awaiting"]

\* improveTypesetting, generateContentStructure, refineContent, generateCreativeWebsite
\* up to the first await.
ServiceEntry(s, available) ==
  LET service == ServiceOf(s.route)
      fallback == FallbackOf(service, "document", 0, s.feedbackIsString)
  IN IF ~available
     THEN Settle([s EXCEPT !.fallbackOutcomes = Append(@, fallback)], fallback)
     ELSE IF service = "generateCreativeWebsite" THEN InvokeWebsiteModel(s)
     ELSE processContentInChunks(s)

\* Mutant of ProcessorResult: a failed model call is rethrown to the dispatcher instead
\* of being answered by the Fallback Generator.
ProcessorResultRethrows(service, chunk, modelOutcome, feedbackIsString) ==
  IF modelOutcome = "ok" THEN ParsedResponse(service, "chunk", chunk)
  ELSE Thrown("Invalid JSON response from Azure OpenAI")

\* processTypesettingChunk, processContentStructureChunk, processRefinementChunk and the
\* body of generateCreativeWebsite: try { model call, parse } catch { Fallback Generator }.
ProcessorResult(service, chunk, modelOutcome, feedbackIsString) ==
  IF modelOutcome = "ok" THEN ParsedResponse(service, "chunk", chunk)
  ELSE FallbackOf(service, "chunk", chunk, feedbackIsString)

\* Mutant of CollectResult: a throw discards the results collected so far.
CollectResultDropsEarlier(results, outcome) ==
  IF outcome.threw THEN <<>> ELSE Append(results, outcome.data)

\* The results list after the processor of a chunk settled: a result is pushed, a throw is skipped.
CollectResult(results, outcome) ==
  IF outcome.threw THEN results ELSE Append(results, outcome.data)

\* Mutant of OnModelSettled: the processor of a chunk whose model call failed calls the
\* model once more for the same chunk before it falls back.
OnModelSettledRetries(s, modelOutcome) ==
  LET service == ServiceOf(s.route)
      outcome == ProcessorResult(service, s.i, modelOutcome, s.feedbackIsString)
      back == [s EXCEPT !.inflight = @ \ {s.i}, !.resp = Append(@, modelOutcome),
                        !.fallbackOutcomes = IF modelOutcome = "ok" THEN @ ELSE Append(@, outcome)]
      retried == Len(s.callLog) >= 2 /\ s.callLog[Len(s.callLog) - 1] = s.i
  IN IF modelOutcome = "fail" /\ ~retried /\ service # "generateCreativeWebsite"
     THEN InvokeProcessor([s EXCEPT !.inflight = @ \ {s.i}])
     ELSE IF service = "generateCreativeWebsite" THEN Settle(back, outcome)
     ELSE IF s.totalChunks = 1
     THEN IF outcome.threw THEN Settle(back, outcome)
          ELSE Settle(Emit(back, ProgressEvent("Processing complete", 100, 1, 1)), outcome)
     ELSE LET next == [back EXCEPT !.results = CollectResult(@, outcome), !.i = @ + 1]
          IN IF next.i < next.totalChunks THEN DispatchChunk(next) ELSE CombineAndFinish(next)

\* The continuation of a run when its model call settles, up to the next await.
OnModelSettled(s, modelOutcome) ==
  LET service == ServiceOf(s.route)
      outcome == ProcessorResult(service, s.i, modelOutcome, s.feedbackIsString)
      back == [s EXCEPT !.inflight = @ \ {s.i}, !.resp = Append(@, modelOutcome),
                        !.fallbackOutcomes = IF modelOutcome = "ok" THEN @ ELSE Append(@, outcome)]
  IN IF service = "generateCreativeWebsite" THEN Settle(back, outcome)
     ELSE IF s.totalChunks = 1
     THEN IF outcome.threw THEN Settle(back, outcome)
          ELSE Settle(Emit(back, ProgressEvent("Processing complete", 100, 1, 1)), outcome)
     ELSE LET next == [back EXCEPT !.results = CollectResult(@, outcome), !.i = @ + 1]
          IN IF next.i < next.totalChunks THEN DispatchChunk(next) ELSE CombineAndFinish(next)

-----------------------------------------------------------------------------
(* The streaming routes *)

\* The k-th fixed progress step of a static route.
StaticStep(route, k) ==
  ProgressEvent("static step " \o ToString(k), StaticPercentages(route)[k], k,
                Len(StaticPercentages(route)))

\* The percentage the error event of a progress route carries.
ErrorPercentage == 0

\* Mutant of OnResolved: the 'complete' event is written without its result.
OnResolvedWithoutResult(s) ==
  [Enqueue(s, TerminalEvent("complete", "complete",
                            IF s.route \in ProgressRoutes THEN 100 ELSE Absent, NoData))
     EXCEPT !.closed = @ + 1, !.pc = "done"]

\* .then(...): the 'complete' event, then controller.close().
OnResolved(s) ==
  LET written ==
        IF s.route \in ProgressRoutes
        THEN Enqueue(s, TerminalEvent("complete", "complete", 100, s.value))
        ELSE Enqueue(Enqueue(s, ProgressEvent("complete!", 100, Len(StaticPercentages(s.route)),
                                              Len(StaticPercentages(s.route)))),
                     TerminalEvent("complete", "", Absent, s.value))
  IN [written EXCEPT !.closed = @ + 1, !.pc = "done"]

\* Mutant of OnRejected: the 'error' event is written but the stream is left open.
OnRejectedNoClose(s) ==
  [Enqueue(s, TerminalEvent("error", "Error occurred during processing",
                            IF s.route \in ProgressRoutes THEN 0 ELSE Absent, s.value))
     EXCEPT !.pc = "done"]

\* .catch(...): the 'error' event, then controller.close().
OnRejected(s) ==
  LET written ==
        IF s.route \in ProgressRoutes
        THEN Enqueue(s, TerminalEvent("error", "Error occurred during processing",
                                      ErrorPercentage, s.value))
        ELSE Enqueue(s, TerminalEvent("error", "", Absent, s.value))
  IN [written EXCEPT !.closed = @ + 1, !.pc = "done"]

\* start(controller) of a route, up to its first await.
RouteStart(s, available) ==
  IF s.route \in ProgressRoutes THEN ServiceEntry(s, available)
  ELSE [Enqueue(s, StaticStep(s.route, 1)) EXCEPT !.step = 1, !.pc = "timer"]

\* A static route after one of its timers: the next fixed step, and after the last one the service.
AfterTimer(s, available) ==
  LET k == s.step + 1
      stepped == [Enqueue(s, StaticStep(s.route, k)) EXCEPT !.step = k]
  IN IF k = Len(StaticPercentages(s.route)) THEN ServiceEntry(stepped, available)
     ELSE stepped

\* Mutant of Store: the results list is a field of the shared service object, so what one
\* invocation collects is seen by the others.
StoreSharedResults(rn, r, s) ==
  [q \in DOMAIN rn |-> IF q = r THEN s ELSE [rn[q] EXCEPT !.results = s.results]]

\* Each invocation's locals and stream belong to that invocation alone.
Store(rn, r, s) == [rn EXCEPT ![r] = s]

\* The request a run serves.
WithRequest(s, route, feedbackIsString, n) ==
  [s EXCEPT !.route = route, !.feedbackIsString = feedbackIsString, !.contentChunks = n]

\* The code a run executes when it is resumed, from one suspension point to the next.
Resume(s, modelOutcome, available) ==
  LET after ==
        CASE s.pc = "idle" -> RouteStart(s, available)
          [] s.pc = "timer" -> AfterTimer(s, available)
          [] s.pc = "awaiting" -> OnModelSettled(s, modelOutcome)
          [] s.pc = "settled" -> IF s.promise = "resolved" THEN OnResolved(s) ELSE OnRejected(s)
          [] OTHER -> s
  IN [after EXCEPT !.steps = s.steps + 1]

NoProbe == [fn |-> "none", input |-> <<>>, output |-> Returned(NoData)]

-----------------------------------------------------------------------------
(* Actions *)

Init ==
  /\ hasAzureConfig \in BOOLEAN
  /\ client \in {"null", "OpenAI"}
  /\ (client = "OpenAI" => hasAzureConfig)
  /\ run = [r \in Runs |-> IdleRun]
  /\ probe = NoProbe

\* A request reaches a streaming route and passes its validation.  The content of a
\* website request is within the chunking threshold of generateCreativeWebsite, which
\* then issues one model call; WebsiteSpec has the larger contents.
Begin(r) ==
  /\ run[r].pc = "idle"
  /\ \E route \in Routes, feedbackIsString \in BOOLEAN, n \in 1..MaxChunks :
       /\ (route # "apply-final-changes" => feedbackIsString)
       /\ (route = "website-generation-progress" => n = 1)
       /\ run' = Store(run, r, Resume(WithRequest(run[r], route, feedbackIsString, n), "ok",
                                      AzureAvailable(client, hasAzureConfig)))
  /\ UNCHANGED <<hasAzureConfig, client, probe>>

\* One of the setTimeout delays of a static route elapses.
Timer(r) ==
  /\ run[r].pc = "timer"
  /\ run' = Store(run, r, Resume(run[r], "ok", AzureAvailable(client, hasAzureConfig)))
  /\ UNCHANGED <<hasAzureConfig, client, probe>>

\* The remote model call of a run returns or throws.
ModelSettle(r) ==
  /\ run[r].pc = "awaiting"
  /\ \E modelOutcome \in ModelOutcomes :
       run' = Store(run, r, Resume(run[r], modelOutcome, AzureAvailable(client, hasAzureConfig)))
  /\ UNCHANGED <<hasAzureConfig, client, probe>>

\* The route's callback on the settled service promise writes the terminal event and closes.
RouteSettle(r) ==
  /\ run[r].pc = "settled"
  /\ run' = Store(run, r, Resume(run[r], "ok", AzureAvailable(client, hasAzureConfig)))
  /\ UNCHANGED <<hasAzureConfig, client, probe>>

Next == \E r \in Runs : Begin(r) \/ Timer(r) \/ ModelSettle(r) \/ RouteSettle(r)

Spec == Init /\ [][Next]_vars

\* The resumption of a suspended run: a timer fires, a model call settles, a callback runs.
Resumption == \E r \in Runs : Timer(r) \/ ModelSettle(r) \/ RouteSettle(r)

\* ENABLED <<Resumption>>_vars, written out: some run is suspended.
ResumptionEnabled == \E r \in Runs : run[r].pc \in {"timer", "awaiting", "settled"}

\* Weak fairness of Resumption, WF_vars(Resumption), with its ENABLED written out: the
\* event loop runs every ready continuation and each remote model call returns or throws.
\* A run is finite, so fairness of the resumptions together resumes each suspended run.
FairSpec == Spec /\ ([]<>(~ResumptionEnabled) \/ []<><<Resumption>>_vars)

-----------------------------------------------------------------------------
(* The Result Combiners applied to arbitrary result lists *)

\* Longest result list handed to a combiner.
MaxResults == 3

ChunkedServices == {"improveTypesetting", "generateContentStructure", "refineContent"}

\* Suggestion lists a parsed model response can carry besides the one of ParsedResponse:
\* the model may repeat a suggestion, and may word one like the combiner's own note.
ParsedSuggestions == {<<"AI suggestion", "AI suggestion">>, <<ChunkCountNote(2)>>}

\* The per-chunk results a processor of the service can return for chunk c.
ChunkResults(service, c) ==
  {ParsedResponse(service, "chunk", c).data} \cup
  {FallbackOf(service, "chunk", c, TRUE).data} \cup
  (IF service = "generateContentStructure" THEN {}
   ELSE {[ParsedResponse(service, "chunk", c).data EXCEPT !.suggestions = suggestions] :
           suggestions \in ParsedSuggestions})

ResultLists(service) ==
  UNION {[1..len -> UNION {ChunkResults(service, c) : c \in 0..(MaxResults - 1)}] : len \in 0..MaxResults}

CombinerInit ==
  /\ hasAzureConfig = TRUE
  /\ client = "OpenAI"
  /\ run = [r \in Runs |-> IdleRun]
  /\ probe = NoProbe

ApplyCombiner ==
  /\ probe = NoProbe
  /\ \E service \in ChunkedServices : \E results \in ResultLists(service) :
       probe' = [fn |-> service, input |-> results, output |-> CombinerOf(service, results)]
  /\ UNCHANGED <<hasAzureConfig, client, run>>

CombinerNext == ApplyCombiner

CombinerSpec == CombinerInit /\ [][CombinerNext]_vars

-----------------------------------------------------------------------------
(* Vocabulary of the claims *)

Last(seq) == seq[Len(seq)]

IsTerminal(event) == event.type \in {"complete", "error"}

TerminalCount(events) == Cardinality({k \in 1..Len(events) : IsTerminal(events[k])})

ProgressCount(events) == Cardinality({k \in 1..Len(events) : events[k].type = "progress"})

CarriesPercentage(event) == event.percentage # Absent

\* The notices by which a suggestions list says that the AI service was unavailable.
DegradedNotices == {UnavailableTypesetting, UnavailableRefinement}

HasDegradedNotice(suggestions) == \E k \in 1..Len(suggestions) : suggestions[k] \in DegradedNotices

Available == AzureAvailable(client, hasAzureConfig)

MultiChunk(s) == s.totalChunks >= 2

-----------------------------------------------------------------------------
(* C1 *)

-----------------------------------------------------------------------------
(* C2 *)

\* C2: a run writes at most one terminal event, nothing is written after it, and the
\* stream is closed exactly once, in the step that writes the terminal event; a finished
\* run has written exactly one terminal event.
C2_ExactlyOneTerminalEvent ==
  \A r \in Runs :
    /\ \A k \in 1..(Len(run[r].events) - 1) : ~IsTerminal(run[r].events[k])
    /\ run[r].closed <= 1
    /\ (run[r].closed = 1) <=> (run[r].events # <<>> /\ IsTerminal(Last(run[r].events)))
    /\ (run[r].pc = "done") <=> (run[r].closed = 1)
    /\ (run[r].pc = "done") => TerminalCount(run[r].events) = 1

\* Both terminal events happen: one run ended 'complete', one ended 'error'.
C2_Witness ==
  \E a, b \in Runs :
    /\ run[a].pc = "done" /\ Last(run[a].events).type = "complete" /\ run[a].closed = 1
    /\ run[b].pc = "done" /\ Last(run[b].events).type = "error" /\ run[b].closed = 1

-----------------------------------------------------------------------------
(* C3 *)

CarriesExactlyOnePayload(event) ==
  \/ event.type = "complete" /\ event.data.kind = "result"
  \/ event.type = "error" /\ event.data.kind = "error"

-----------------------------------------------------------------------------
(* C4 *)

Delivered(r) ==
  /\ run[r].pc = "done"
  /\ run[r].closed = 1
  /\ IsTerminal(Last(run[r].events))
  /\ Last(run[r].events).type = "complete" => Last(run[r].events).data.kind = "result"

-----------------------------------------------------------------------------
(* C5 *)

\* C5 as stated: without credentials each service returns the Fallback-Generator result
\* for the whole document, with no model call, no Splitter and no Dispatcher progress
\* event, and the suggestions of the result contain a 'service unavailable' notice.
C5_NoCredentialsFallbackWithNotice ==
  \A r \in Runs : (~Available /\ run[r].promise # "pending") =>
    /\ run[r].calls = 0
    /\ run[r].splitterCalls = 0
    /\ run[r].totalChunks = 0
    /\ \A k \in 1..Len(run[r].events) :
         run[r].events[k].type = "progress" => run[r].route \in StaticRoutes
    /\ run[r].promise = "resolved"
    /\ run[r].value.parts = <<Part("document", 0, "fallback")>>
    /\ HasDegradedNotice(run[r].value.suggestions)

-----------------------------------------------------------------------------
(* C6 *)

\* C6 as stated: every call of a Fallback Generator returns normally and the suggestions
\* of its result contain a note that the result is degraded.
C6_FallbackGeneratorsReturnLabelledResults ==
  \A r \in Runs : \A k \in 1..Len(run[r].fallbackOutcomes) :
    /\ ~run[r].fallbackOutcomes[k].threw
    /\ HasDegradedNotice(run[r].fallbackOutcomes[k].data.suggestions)

-----------------------------------------------------------------------------
(* C7 *)

\* C7 as stated: every Result Combiner given zero results raises an error and returns
\* no empty or placeholder structure.
C7_CombinersRejectZeroResults ==
  (probe.fn \in ChunkedServices /\ Len(probe.input) = 0) =>
    (probe.output.threw /\ probe.output.data.kind = "error")

-----------------------------------------------------------------------------
(* C8 *)

AllOutcomesFail(s) == \A k \in 1..Len(s.resp) : s.resp[k] = "fail"

ServiceReturned(s) == s.pc \in {"settled", "done"}

\* The processor of a chunk throws only when createFallbackRefinement does.
FallbackThrows(s) == ServiceOf(s.route) = "refineContent" /\ ~s.feedbackIsString

\* The chunks processed so far whose processor returned, with the producer of each result.
RECURSIVE ContributionsUpTo(_, _)
ContributionsUpTo(s, c) ==
  IF c = 0 THEN <<>>
  ELSE LET earlier == ContributionsUpTo(s, c - 1)
       IN IF s.resp[c] = "ok" THEN Append(earlier, Part("chunk", c - 1, "ai"))
          ELSE IF FallbackThrows(s) THEN earlier
          ELSE Append(earlier, Part("chunk", c - 1, "fallback"))

-----------------------------------------------------------------------------
(* C9 *)

\* C9: in one run at most one processor is in flight, and the processor of a chunk is in
\* flight only when the processor of every earlier chunk has settled.
C9_ChunksProcessedSequentially ==
  \A r \in Runs :
    /\ Cardinality(run[r].inflight) <= 1
    /\ \A c \in run[r].inflight : c = Len(run[r].resp)
    /\ run[r].calls = Len(run[r].resp) + Cardinality(run[r].inflight)

\* The processor of the second chunk is in flight after the first one settled.
C9_Witness ==
  \E r \in Runs : MultiChunk(run[r]) /\ run[r].inflight = {1} /\ Len(run[r].resp) = 1

-----------------------------------------------------------------------------
(* C10 *)

\* The run of the request of s alone, fed the model outcomes of s, after k continuations.
RECURSIVE Alone(_, _, _)
Alone(s, k, available) ==
  IF k = 0 THEN IdleRun
  ELSE LET before == IF k = 1
                     THEN WithRequest(IdleRun, s.route, s.feedbackIsString, s.contentChunks)
                     ELSE Alone(s, k - 1, available)
           outcome == IF Len(before.resp) < Len(s.resp) THEN s.resp[Len(before.resp) + 1]
                      ELSE "ok"
       IN Resume(before, outcome, available)

\* C10: under every interleaving of two invocations, the events and the result of each
\* are those of the same request run alone with the same model outcomes.
C10_ConcurrentRunsAreIndependent ==
  \A r \in Runs :
    LET alone == Alone(run[r], run[r].steps, Available)
    IN /\ run[r].events = alone.events
       /\ run[r].value = alone.value
       /\ run[r].promise = alone.promise
       /\ run[r].results = alone.results

\* Two multi-chunk invocations are suspended at the same time, each between its chunks.
C10_Witness ==
  \E a, b \in Runs :
    /\ a # b
    /\ MultiChunk(run[a]) /\ run[a].pc = "awaiting" /\ Len(run[a].resp) = 1
    /\ MultiChunk(run[b]) /\ run[b].pc = "awaiting" /\ Len(run[b].resp) = 1

-----------------------------------------------------------------------------
(* The Splitter: estimateTokens and chunkContent on texts of characters *)

\* Longest text handed to chunkContent.
MaxTextLen == 9

\* Largest maxTokens handed to chunkContent.
MaxThreshold == 2

\* A text is a sequence of characters: a letter, a space, a line feed.
Chars == {"a", " ", "\n"}

Texts == UNION {[1..n -> Chars] : n \in 0..MaxTextLen}

\* The characters String.prototype.trim removes.
Whitespace == {" ", "\n"}

\* '\n\n'
ParagraphSeparator == <<"\n", "\n">>

\* Math.ceil(text.length / 4)
estimateTokens(text) == (Len(text) + 3) \div 4

RECURSIVE trimStart(_)
trimStart(text) ==
  IF text # <<>> /\ Head(text) \in Whitespace THEN trimStart(Tail(text)) ELSE text

RECURSIVE trimEnd(_)
trimEnd(text) ==
  IF text # <<>> /\ text[Len(text)] \in Whitespace
  THEN trimEnd(SubSeq(text, 1, Len(text) - 1)) ELSE text

\* String.prototype.trim
trim(text) == trimEnd(trimStart(text))

\* The positions at which the separator '\n\n' occurs in text.
SeparatorAt(text) ==
  {k \in 1..(Len(text) - 1) : text[k] = "\n" /\ text[k + 1] = "\n"}

\* content.split('\n\n'): the pieces between successive occurrences, scanned left to right.
RECURSIVE split(_)
split(text) ==
  IF SeparatorAt(text) = {} THEN <<text>>
  ELSE LET k == CHOOSE j \in SeparatorAt(text) : \A l \in SeparatorAt(text) : j <= l
       IN <<SubSeq(text, 1, k - 1)>> \o split(SubSeq(text, k + 2, Len(text)))

\* .filter(p => p.trim())
NonBlank(pieces) == SelectSeq(pieces, LAMBDA piece : trim(piece) # <<>>)

\* Mutant of AppendParagraph: the paragraph is appended without the separator.
AppendParagraphNoSeparator(currentChunk, paragraph) == currentChunk \o paragraph

\* currentChunk += (currentChunk ? '\n\n' : '') + paragraph
AppendParagraph(currentChunk, paragraph) ==
  IF currentChunk = <<>> THEN paragraph
  ELSE currentChunk \o ParagraphSeparator \o paragraph

\* The state of the packing loop before its first paragraph.
EmptyPacking == [chunks |-> <<>>, currentChunk |-> <<>>, currentTokens |-> 0]

\* One iteration of for (const paragraph of paragraphs).
PackParagraph(packing, paragraph, maxTokens) ==
  LET paragraphTokens == estimateTokens(paragraph)
  IN IF packing.currentTokens + paragraphTokens > maxTokens /\ packing.currentChunk # <<>>
     THEN [chunks |-> Append(packing.chunks, trim(packing.currentChunk)),
           currentChunk |-> paragraph,
           currentTokens |-> paragraphTokens]
     ELSE [chunks |-> packing.chunks,
           currentChunk |-> AppendParagraph(packing.currentChunk, paragraph),
           currentTokens |-> packing.currentTokens + paragraphTokens]

\* The packing loop over the first k paragraphs.
RECURSIVE PackParagraphs(_, _, _)
PackParagraphs(paragraphs, k, maxTokens) ==
  IF k = 0 THEN EmptyPacking
  ELSE PackParagraph(PackParagraphs(paragraphs, k - 1, maxTokens), paragraphs[k], maxTokens)

\* if (currentChunk.trim()) chunks.push(currentChunk.trim())
PushLastChunk(packing) ==
  IF trim(packing.currentChunk) # <<>>
  THEN Append(packing.chunks, trim(packing.currentChunk))
  ELSE packing.chunks

\* Math.floor(maxTokens * 3.5)
HardChunkSize(maxTokens) == (7 * maxTokens) \div 2

\* for (let i = 0; i < content.length; i += chunkSize) chunks.push(content.slice(i, i + chunkSize))
RECURSIVE SplitByCharacterCount(_, _)
SplitByCharacterCount(content, chunkSize) ==
  IF content = <<>> THEN <<>>
  ELSE IF Len(content) <= chunkSize THEN <<content>>
  ELSE <<SubSeq(content, 1, chunkSize)>>
         \o SplitByCharacterCount(SubSeq(content, chunkSize + 1, Len(content)), chunkSize)

\* chunkContent past its early return: the paragraph packing, then the forced split
\* when the packing made no chunk.
SplitLargeContent(content, maxTokens) ==
  LET paragraphs == NonBlank(split(content))
      chunks == PushLastChunk(PackParagraphs(paragraphs, Len(paragraphs), maxTokens))
  IN IF Len(chunks) = 0 THEN SplitByCharacterCount(content, HardChunkSize(maxTokens))
     ELSE chunks

\* Mutant of chunkContent: no early return for a text that fits.
chunkContentAlwaysSplits(content, maxTokens) == SplitLargeContent(content, maxTokens)

chunkContent(content, maxTokens) ==
  IF estimateTokens(content) <= maxTokens THEN <<content>>
  ELSE SplitLargeContent(content, maxTokens)

\* chunks.join('\n\n')
RECURSIVE Join(_)
Join(chunks) ==
  IF chunks = <<>> THEN <<>>
  ELSE IF Len(chunks) = 1 THEN chunks[1]
  ELSE chunks[1] \o ParagraphSeparator \o Join(Tail(chunks))

SplitterInit ==
  /\ hasAzureConfig = TRUE
  /\ client = "OpenAI"
  /\ run = [r \in Runs |-> IdleRun]
  /\ probe = NoProbe

ApplySplitter ==
  /\ probe.fn = "none"
  /\ \E content \in Texts, maxTokens \in 1..MaxThreshold :
       probe' = [fn |-> "chunkContent",
                 input |-> [content |-> content, maxTokens |-> maxTokens],
                 output |-> chunkContent(content, maxTokens)]
  /\ UNCHANGED <<hasAzureConfig, client, run>>

SplitterNext == ApplySplitter

SplitterSpec == SplitterInit /\ [][SplitterNext]_vars

\* chunkContent has been applied.
SplitterApplied == probe.fn = "chunkContent"

OverThreshold == estimateTokens(probe.input.content) > probe.input.maxTokens

\* The number of paragraphs a chunk is made of.
ParagraphCount(chunk) == Len(NonBlank(split(chunk)))

\* Every piece between two separators has content and neither starts nor ends with whitespace.
CleanParagraphs(text) ==
  \A k \in 1..Len(split(text)) : split(text)[k] # <<>> /\ trim(split(text)[k]) = split(text)[k]

-----------------------------------------------------------------------------
(* C11 *)

\* C11: for a text whose estimated token count ceil(length / 4) is at most the threshold,
\* chunkContent returns exactly one chunk, equal to the text.
C11_SmallTextIsOneChunk ==
  (SplitterApplied /\ Len(probe.input.content) <= 4 * probe.input.maxTokens)
    => probe.output = <<probe.input.content>>

\* A text that fits although it holds a blank line and whitespace at its ends.
C11_Witness ==
  /\ SplitterApplied /\ ~OverThreshold
  /\ SeparatorAt(probe.input.content) # {}
  /\ trim(probe.input.content) # probe.input.content
  /\ probe.output = <<probe.input.content>>

-----------------------------------------------------------------------------
(* C12 *)

\* C12 as stated: for a text over the threshold, joining the chunks in order with the
\* paragraph separator reproduces the text exactly.
C12_JoinReproducesText ==
  (SplitterApplied /\ OverThreshold) => Join(probe.output) = probe.input.content

\* C12 amended: for a text over the threshold, joining the chunks with the paragraph
\* separator reproduces the text exactly when every paragraph of the text has content and
\* neither starts nor ends with whitespace; when the text has no paragraph with content,
\* the chunks are consecutive slices and their plain concatenation reproduces the text.
C12_JoinReproducesCleanText ==
  (SplitterApplied /\ OverThreshold) =>
    /\ CleanParagraphs(probe.input.content) => Join(probe.output) = probe.input.content
    /\ NonBlank(split(probe.input.content)) = <<>> => Flatten(probe.output) = probe.input.content

\* A text of clean paragraphs was split into several chunks.
C12_Witness ==
  /\ SplitterApplied /\ OverThreshold
  /\ CleanParagraphs(probe.input.content)
  /\ Len(probe.output) >= 2
  /\ \E k \in 1..Len(probe.output) : ParagraphCount(probe.output[k]) >= 2

-----------------------------------------------------------------------------
(* C13 *)

\* C13 as stated: for every text and every threshold, no chunk chunkContent returns is
\* the empty string.
C13_NoChunkIsEmpty ==
  SplitterApplied => \A k \in 1..Len(probe.output) : probe.output[k] # <<>>

-----------------------------------------------------------------------------
(* C14 *)

\* C14 as stated: every returned chunk made of two or more paragraphs has an estimated
\* token count, separators included, of at most the threshold.
C14_MultiParagraphChunkFits ==
  SplitterApplied => \A k \in 1..Len(probe.output) :
    ParagraphCount(probe.output[k]) >= 2
      => estimateTokens(probe.output[k]) <= probe.input.maxTokens

-----------------------------------------------------------------------------
(* C19 *)

\* C19 as stated: for a text over the threshold that holds no blank line, every returned
\* chunk has at most floor(threshold * 3.5) characters.
C19_SingleBlockIsHardSplit ==
  (SplitterApplied /\ OverThreshold /\ SeparatorAt(probe.input.content) = {}) =>
    \A k \in 1..Len(probe.output) :
      Len(probe.output[k]) <= HardChunkSize(probe.input.maxTokens)

-----------------------------------------------------------------------------
(* C15 *)

NoDuplicates(list) == \A j, k \in 1..Len(list) : list[j] = list[k] => j = k

\* C15 as stated: for every list of one or more per-chunk results, the suggestions of the
\* result combineTypesettingResults and combineRefinementResults return hold no two equal
\* strings, for a single result and with the chunk-count note as well.
C15_CombinedSuggestionsAreUnique ==
  (probe.fn \in {"improveTypesetting", "refineContent"} /\ Len(probe.input) >= 1)
    => (~probe.output.threw /\ NoDuplicates(probe.output.data.suggestions))

-----------------------------------------------------------------------------
(* The Response Repairer: cleanJsonResponse on responses of tokens *)

\* Longest model response, in tokens.
MaxResponseLen == 4

\* A response is a sequence of tokens: a Markdown code fence (fence), whitespace, the
\* braces and the comma of JSON, a complete string property "k":"v" (p), a string property
\* whose value holds a raw line feed (n), and prose (t).  A response cut off by the token
\* limit may end in a property cut inside its string value (c).
ResponseTokens == {"fence", " ", "{", "}", ",", "p", "n", "t"}

TokenSeqs(len) == UNION {[1..k -> ResponseTokens] : k \in 0..len}

Responses == TokenSeqs(MaxResponseLen) \cup {Append(r, "c") : r \in TokenSeqs(MaxResponseLen - 1)}

\* The properties JSON.parse accepts: p, and n once its line feed is escaped (e).
ValidProperties == {"p", "e"}

\* JSON.parse(response) succeeds: an object of properties separated by commas, with
\* whitespace anywhere between its tokens.
JsonParses(response) ==
  LET s == SelectSeq(response, LAMBDA x : x # " ")
  IN /\ Len(s) >= 2
     /\ s[1] = "{"
     /\ s[Len(s)] = "}"
     /\ (Len(s) > 2 => Len(s) % 2 = 1)
     /\ \A k \in 2..(Len(s) - 1) :
          IF k % 2 = 0 THEN s[k] \in ValidProperties ELSE s[k] = ","

\* Mutant of validateJsonResponse: no response is recognised as valid.
validateJsonResponseRejects(response) == FALSE

\* validateJsonResponse(response).isValid
validateJsonResponse(response) == JsonParses(response)

\* Remove any markdown code block markers: each fence with the whitespace after it.
RECURSIVE StripFences(_)
StripFences(response) ==
  IF response = <<>> THEN <<>>
  ELSE IF Head(response) = "fence" THEN StripFences(trimStart(Tail(response)))
  ELSE <<Head(response)>> \o StripFences(Tail(response))

\* cleaned.match(/\{[\s\S]*\}/): from the first opening brace to the last closing brace.
ExtractObject(cleaned) ==
  LET opens == {k \in 1..Len(cleaned) : cleaned[k] = "{"}
      closes == {k \in 1..Len(cleaned) : cleaned[k] = "}"}
  IN IF \E o \in opens, c \in closes : o < c
     THEN LET first == CHOOSE o \in opens : \A k \in opens : o <= k
              last == CHOOSE c \in closes : \A k \in closes : k <= c
          IN Returned(SubSeq(cleaned, first, last))
     ELSE Thrown("No valid JSON object found in response")

Count(tokens, x) == Cardinality({k \in 1..Len(tokens) : tokens[k] = x})

\* '}' repeated n times.
RECURSIVE Braces(_)
Braces(n) == IF n <= 0 THEN <<>> ELSE <<"}">> \o Braces(n - 1)

\* repairTruncatedJson: when the text ends in a property followed by nothing but
\* characters other than ',' and '}' (and at most one final comma), cut the final comma
\* and append the missing closing braces, one at least.
repairTruncatedJson(json) ==
  LET kept == IF json # <<>> /\ Last(json) = "," THEN SubSeq(json, 1, Len(json) - 1) ELSE json
      matched == \E j \in 1..Len(kept) :
                   /\ kept[j] \in {"p", "n", "c"}
                   /\ \A k \in (j + 1)..Len(kept) : kept[k] \notin {",", "}"}
      missingBraces == Count(kept, "{") - Count(kept, "}")
  IN IF matched
     THEN Returned(kept \o Braces(IF missingBraces > 1 THEN missingBraces ELSE 1))
     ELSE Thrown("Truncated JSON response cannot be repaired automatically")

\* sanitizeJsonStrings: raw line feeds inside string literals are escaped.
sanitizeJsonStrings(json) == [k \in 1..Len(json) |-> IF json[k] = "n" THEN "e" ELSE json[k]]

\* The catch of cleanJsonResponse rethrows every error as 'JSON cleaning failed'.
CleaningFailed == Thrown("JSON cleaning failed")

\* Mutant of RepairResponse: the sanitized text is returned without the final validation.
RepairResponseUnvalidated(unfenced) ==
  LET object == IF unfenced # <<>> /\ Head(unfenced) = "{" THEN Returned(unfenced)
                ELSE ExtractObject(unfenced)
      closed == IF object.threw THEN object
                ELSE IF Last(object.data) = "}" THEN object
                ELSE repairTruncatedJson(object.data)
      cleaned == IF closed.threw THEN closed
                 ELSE IF validateJsonResponse(closed.data) THEN closed
                 ELSE Returned(sanitizeJsonStrings(closed.data))
  IN IF cleaned.threw THEN CleaningFailed ELSE cleaned

\* cleanJsonResponse past the first validation, from the text without fences.
RepairResponse(unfenced) ==
  LET object == IF unfenced # <<>> /\ Head(unfenced) = "{" THEN Returned(unfenced)
                ELSE ExtractObject(unfenced)
      closed == IF object.threw THEN object
                ELSE IF Last(object.data) = "}" THEN object
                ELSE repairTruncatedJson(object.data)
      cleaned == IF closed.threw THEN closed
                 ELSE IF validateJsonResponse(closed.data) THEN closed
                 ELSE Returned(sanitizeJsonStrings(closed.data))
  IN IF cleaned.threw THEN CleaningFailed
     ELSE IF validateJsonResponse(cleaned.data) THEN cleaned
     ELSE CleaningFailed

cleanJsonResponse(response) ==
  IF validateJsonResponse(response) THEN Returned(response)
  ELSE RepairResponse(trim(StripFences(response)))

\* The partial-data regular expressions of the processors' inner catch, applied to the raw
\* response: they need a complete string property (both "html" and "css" for the website);
\* processContentStructureChunk has none.
ExtractsFragment(service, result) ==
  LET complete == Count(result, "p") + Count(result, "n")
  IN CASE service = "improveTypesetting" -> complete >= 1
       [] service = "refineContent" -> complete >= 1
       [] service = "generateCreativeWebsite" -> complete >= 2
       [] service = "generateContentStructure" -> FALSE

\* The result built from an extracted fragment.
ExtractedResult(service, chunk) ==
  Returned(StyledResult(<<Part("chunk", chunk, "extracted")>>,
    << IF service = "improveTypesetting"
       THEN "Response parsing failed, using basic formatting"
       ELSE "Response parsing failed, using regex extraction fallback" >>,
    IF service = "improveTypesetting"
    THEN [css |-> "basic css", layout |-> "Basic layout applied due to parsing error"]
    ELSE NoStyling))

\* A per-chunk processor from the model's response on: cleanJsonResponse and JSON.parse,
\* in the inner catch the fragment extraction, and last the Fallback Generator.
ProcessResponse(service, chunk, result, feedbackIsString) ==
  IF ~cleanJsonResponse(result).threw
  THEN ProcessorResult(service, chunk, "ok", feedbackIsString)
  ELSE IF ExtractsFragment(service, result) THEN ExtractedResult(service, chunk)
  ELSE ProcessorResult(service, chunk, "fail", feedbackIsString)

Services == ChunkedServices \cup {"generateCreativeWebsite"}

RepairInit ==
  /\ hasAzureConfig = TRUE
  /\ client = "OpenAI"
  /\ run = [r \in Runs |-> IdleRun]
  /\ probe = NoProbe

ApplyRepairer ==
  /\ probe.fn = "none"
  /\ \E response \in Responses :
       probe' = [fn |-> "cleanJsonResponse", input |-> response,
                 output |-> cleanJsonResponse(response)]
  /\ UNCHANGED <<hasAzureConfig, client, run>>

ApplyProcessor ==
  /\ probe.fn = "none"
  /\ \E service \in Services, response \in Responses, feedbackIsString \in BOOLEAN :
       /\ (service # "refineContent" => feedbackIsString)
       /\ probe' = [fn |-> "processor",
                    input |-> [service |-> service, response |-> response,
                               feedbackIsString |-> feedbackIsString],
                    output |-> ProcessResponse(service, 0, response, feedbackIsString)]
  /\ UNCHANGED <<hasAzureConfig, client, run>>

RepairNext == ApplyRepairer \/ ApplyProcessor

RepairSpec == RepairInit /\ [][RepairNext]_vars

-----------------------------------------------------------------------------
(* C16 *)

\* C16: given a response that already parses as JSON, cleanJsonResponse returns that
\* response unchanged.
C16_ValidJsonIsReturnedUnchanged ==
  (probe.fn = "cleanJsonResponse" /\ JsonParses(probe.input))
    => (~probe.output.threw /\ probe.output.data = probe.input)

\* A valid response that the repair steps would have altered: it starts with whitespace.
C16_Witness ==
  /\ probe.fn = "cleanJsonResponse" /\ JsonParses(probe.input)
  /\ Head(probe.input) = " " /\ Count(probe.input, "p") >= 1
  /\ ~probe.output.threw /\ probe.output.data = probe.input

-----------------------------------------------------------------------------
(* C17 *)

\* C17 as stated: for a response that is malformed or truncated JSON, a per-chunk
\* processor lets no exception escape: it returns the repaired parse, a result built by
\* fragment extraction, or a Fallback-Generator result.
C17_MalformedResponseNeverEscapes ==
  (probe.fn = "processor" /\ ~JsonParses(probe.input.response)) =>
    /\ ~probe.output.threw
    /\ probe.output.data.parts[1].src \in {"ai", "extracted", "fallback"}

-----------------------------------------------------------------------------
(* C18 *)

\* The chunks processed so far whose processor returned rather than threw.
ReturnedChunks(s) ==
  {c \in 0..(Len(s.resp) - 1) :
     ~ProcessorResult(ServiceOf(s.route), c, s.resp[c + 1], s.feedbackIsString).threw}

\* C18: in a run of two or more chunks a processor that throws for a chunk does not abort
\* the run: the processor is still invoked for every later chunk, and the list handed to
\* the combiner holds exactly the results of the chunks whose processor returned, in
\* increasing chunk order.
C18_ThrowingChunkDoesNotAbort ==
  \A r \in Runs : MultiChunk(run[r]) =>
    /\ Len(run[r].results) = Cardinality(ReturnedChunks(run[r]))
    /\ \A k \in 1..Len(run[r].results) : run[r].results[k].parts[1].chunk \in ReturnedChunks(run[r])
    /\ \A j, k \in 1..Len(run[r].results) :
         j < k => run[r].results[j].parts[1].chunk < run[r].results[k].parts[1].chunk
    /\ ServiceReturned(run[r]) =>
         /\ run[r].calls = run[r].totalChunks
         /\ Len(run[r].resp) = run[r].totalChunks
         /\ run[r].combinerCalls = 1

\* The processor threw for the first chunk and returned for the second, whose result is
\* the only one handed to the combiner.
C18_Witness ==
  \E r \in Runs :
    /\ MultiChunk(run[r]) /\ ServiceReturned(run[r]) /\ FallbackThrows(run[r])
    /\ run[r].resp[1] = "fail" /\ run[r].resp[2] = "ok"
    /\ ReturnedChunks(run[r]) = {1}
    /\ Len(run[r].results) = 1 /\ run[r].combinerCalls = 1

-----------------------------------------------------------------------------
(* C20 *)

\* The percentages of the progress events of a run, in order.
ProgressPercentages(events) ==
  LET progress == SelectSeq(events, LAMBDA event : event.type = "progress")
  IN [k \in 1..Len(progress) |-> progress[k].percentage]

\* C20: when the Splitter returns one chunk, the processor is invoked once, the combiner
\* never, and the pipeline emits 50 before the processor call and 100 after it returned;
\* when the processor throws, no 100 is emitted.
C20_SingleChunkEmits50Then100 ==
  \A r \in Runs : run[r].totalChunks = 1 =>
    /\ run[r].splitterCalls = 1
    /\ run[r].calls = 1
    /\ run[r].combinerCalls = 0
    /\ run[r].results = <<>>
    /\ run[r].route \in ProgressRoutes =>
         ProgressPercentages(run[r].events) =
           (IF ServiceReturned(run[r]) /\ run[r].promise = "resolved" THEN <<50, 100>> ELSE <<50>>)

\* One single-chunk run whose processor returned and one whose processor threw.
C20_Witness ==
  \E a, b \in Runs :
    /\ run[a].totalChunks = 1 /\ run[a].route \in ProgressRoutes
    /\ ServiceReturned(run[a]) /\ run[a].promise = "resolved"
    /\ run[b].totalChunks = 1 /\ run[b].route \in ProgressRoutes
    /\ ServiceReturned(run[b]) /\ run[b].promise = "rejected"

-----------------------------------------------------------------------------
(* C21 *)

\* The events the dispatcher's loop emits before it processes a chunk.
IsChunkEvent(event) ==
  /\ event.type = "progress"
  /\ event.chunkIndex # Absent
  /\ event.step = "Processing chunk " \o ToString(event.chunkIndex) \o " of "
                    \o ToString(event.totalChunks) \o "..."

\* p is x / n rounded to the nearest integer, halves upwards (Math.round of a positive number).
IsRounded(p, x, n) == 2 * n * p <= 2 * x + n /\ 2 * x + n < 2 * n * (p + 1)

-----------------------------------------------------------------------------
(* C22 *)

IsCombiningEvent(event) == event.type = "progress" /\ event.percentage = 95

IsCompletionEvent(event) == event.type = "progress" /\ event.percentage = 100

\* C22: in a multi-chunk run of a progress route, the 95% 'Combining results...' event is
\* written only when the processor of every chunk, the last one included, has returned or
\* thrown; the combiner is invoked at most once, and when it is invoked the 95% event is
\* the last event written before it; a 100% progress event is written only after the
\* combiner was invoked and returned; and when the combiner threw, none is written.
C22_CombinationOrder ==
  \A r \in Runs :
    LET s == run[r]
    IN (s.route \in ProgressRoutes /\ MultiChunk(s)) =>
         /\ \A k \in 1..Len(s.events) :
              IsCombiningEvent(s.events[k])
                => Len(s.resp) = s.totalChunks /\ s.inflight = {} /\ s.combinerAt = k
         /\ s.combinerCalls <= 1
         /\ (s.combinerCalls = 1) = (Len(s.resp) = s.totalChunks)
         /\ s.combinerCalls = 1
              => s.combinerAt \in 1..Len(s.events) /\ IsCombiningEvent(s.events[s.combinerAt])
         /\ \A k \in 1..Len(s.events) :
              IsCompletionEvent(s.events[k])
                => s.combinerCalls = 1 /\ k > s.combinerAt /\ s.promise = "resolved"
         /\ s.promise = "rejected"
              => \A k \in 1..Len(s.events) : ~IsCompletionEvent(s.events[k])

\* The combiner of a multi-chunk run threw after the 95% event was written.
C22_Witness ==
  \E r \in Runs :
    /\ run[r].route \in ProgressRoutes
    /\ MultiChunk(run[r])
    /\ run[r].combinerCalls = 1
    /\ run[r].promise = "rejected"
    /\ \E k \in 1..Len(run[r].events) : IsCombiningEvent(run[r].events[k])

-----------------------------------------------------------------------------
(* C23 *)

ContentCombiners == {"improveTypesetting", "refineContent"}

\* C23: for two or more results, the content combineTypesettingResults and
\* combineRefinementResults return is the contents of the results in the order of the
\* list, one blank-line separator between each two consecutive contents: no content is
\* dropped, duplicated or moved.
C23_CombinedContentIsJoinedInOrder ==
  (probe.fn \in ContentCombiners /\ Len(probe.input) >= 2) =>
    LET n == Len(probe.input)
        content == probe.output.data.parts
    IN /\ ~probe.output.threw
       /\ Len(content) = 2 * n - 1
       /\ \A k \in 1..n : <<content[2 * k - 1]>> = probe.input[k].parts
       /\ \A k \in 1..(n - 1) : content[2 * k] = BlankLine

\* A combiner joined three results whose contents come from chunks in an order other
\* than ascending.
C23_Witness ==
  /\ probe.fn \in ContentCombiners
  /\ Len(probe.input) = 3
  /\ probe.input[1].parts[1].chunk > probe.input[2].parts[1].chunk
  /\ probe.input[2].parts[1].src # probe.input[3].parts[1].src
  /\ ~probe.output.threw

-----------------------------------------------------------------------------
(* C24 *)

\* C24: the result of combineTypesettingResults has the css of the first result; for two
\* or more results its layout is the layout of the first result followed by the note
\* ' (processed in N chunks)', and a single result is returned unchanged, its layout
\* without a note.
C24_StylingOfFirstResult ==
  (probe.fn = "improveTypesetting" /\ Len(probe.input) >= 1) =>
    /\ ~probe.output.threw
    /\ probe.output.data.styling.css = probe.input[1].styling.css
    /\ IF Len(probe.input) = 1
       THEN probe.output.data = probe.input[1]
       ELSE probe.output.data.styling.layout
              = probe.input[1].styling.layout \o " (processed in "
                  \o ToString(Len(probe.input)) \o " chunks)"

\* combineTypesettingResults combined results whose first and last stylings differ.
C24_Witness ==
  /\ probe.fn = "improveTypesetting"
  /\ Len(probe.input) >= 2
  /\ probe.input[1].styling.css # probe.input[Len(probe.input)].styling.css
  /\ probe.input[1].styling.layout # probe.input[Len(probe.input)].styling.layout
  /\ ~probe.output.threw

-----------------------------------------------------------------------------
(* C25 *)

Chunked(s) == s.route # "none" /\ ServiceOf(s.route) \in ChunkedServices

\* C25: in a typesetting, structuring or refinement run the model is called at most once
\* for each chunk: the calls of a run are for pairwise different chunks of the run, no call
\* follows a failed call for the same chunk, and a run over N chunks issues at most N calls.
C25_AtMostOneCallPerChunk ==
  \A r \in Runs :
    LET s == run[r]
    IN Chunked(s) =>
         /\ s.calls = Len(s.callLog)
         /\ s.calls <= s.totalChunks
         /\ \A k \in 1..Len(s.callLog) : s.callLog[k] \in 0..(s.totalChunks - 1)
         /\ \A j, k \in 1..Len(s.callLog) : j < k => s.callLog[j] # s.callLog[k]
         /\ \A j \in 1..Len(s.resp) : s.resp[j] = "fail" =>
              \A k \in (j + 1)..Len(s.callLog) : s.callLog[k] # s.callLog[j]

\* A run of two chunks ended after the model call of its first chunk had failed.
C25_Witness ==
  \E r \in Runs :
    /\ Chunked(run[r])
    /\ run[r].totalChunks = 2
    /\ run[r].pc = "done"
    /\ run[r].resp[1] = "fail"
    /\ run[r].calls = 2

-----------------------------------------------------------------------------
(* C27 *)

\* C27: every progress event processContentInChunks emits has 1 <= chunkIndex <=
\* totalChunks; all of them carry the same totalChunks, the number of chunks the Splitter
\* returned for the run; and chunkIndex never decreases from one event to the next.
C27_ChunkIndexWithinTotal ==
  \A r \in Runs :
    LET s == run[r]
    IN s.route \in ProgressRoutes =>
         \A k \in 1..Len(s.events) :
           s.events[k].type = "progress" =>
             /\ 1 <= s.events[k].chunkIndex
             /\ s.events[k].chunkIndex <= s.events[k].totalChunks
             /\ s.events[k].totalChunks = s.contentChunks
             /\ s.splitterCalls = 1
             /\ \A j \in 1..(k - 1) :
                  s.events[j].type = "progress"
                    => s.events[j].chunkIndex <= s.events[k].chunkIndex

\* A multi-chunk run wrote its per-chunk events, the 95% event and the 100% event.
C27_Witness ==
  \E r \in Runs :
    /\ run[r].route \in ProgressRoutes
    /\ MultiChunk(run[r])
    /\ ProgressCount(run[r].events) = run[r].totalChunks + 2

-----------------------------------------------------------------------------
(* C26 *)

\* C26: whenever cleanJsonResponse returns rather than throws, the string it returns
\* parses as JSON, and whenever it throws, the error is 'JSON cleaning failed'.
C26_ReturnedStringParses ==
  probe.fn = "cleanJsonResponse" =>
    IF probe.output.threw THEN probe.output = CleaningFailed
    ELSE JsonParses(probe.output.data)

\* cleanJsonResponse returned a string other than the response it was given: the response
\* did not parse and was repaired.
C26_Witness ==
  /\ probe.fn = "cleanJsonResponse"
  /\ ~probe.output.threw
  /\ ~JsonParses(probe.input)
  /\ probe.output.data # probe.input

-----------------------------------------------------------------------------
(* The caller: processWithServerSentEvents reading the response of a streaming route *)

\* Largest number of progress events of a response stream.
MaxProgressEvents == 2

\* An event a route writes: a progress event, or the terminal event with its payload.
SseEvent(type, id) == [type |-> type, id |-> id]

\* The event sequences a route writes before it closes the stream, and their prefixes
\* without a terminal event (the connection ends before the route has written one).
ServerStreams ==
  {[k \in 1..n |-> SseEvent("progress", k)] \o terminal :
     n \in 0..MaxProgressEvents,
     terminal \in {<<>>, <<SseEvent("complete", 0)>>, <<SseEvent("error", 0)>>}}

\* A stretch of the bytes of the response: the first or the second part of the text
\* 'data: {...}' of an event, cut anywhere inside it, or a line feed.
Piece(event, piece) == [event |-> event, piece |-> piece]

LineFeed == Piece(SseEvent("none", 0), "\n")

\* encoder.encode('data: ' + JSON.stringify(event) + '\n\n')
Encode(event) == <<Piece(event, "head"), Piece(event, "tail"), LineFeed, LineFeed>>

\* The bytes of a response, in the order the route enqueued them.
Bytes(events) == Flatten([k \in 1..Len(events) |-> Encode(events[k])])

\* chunk.split('\n')
RECURSIVE SplitLines(_)
SplitLines(chunk) ==
  IF \A k \in 1..Len(chunk) : chunk[k] # LineFeed THEN <<chunk>>
  ELSE LET feed == CHOOSE k \in 1..Len(chunk) :
                     chunk[k] = LineFeed /\ \A j \in 1..(k - 1) : chunk[j] # LineFeed
       IN <<SubSeq(chunk, 1, feed - 1)>> \o SplitLines(SubSeq(chunk, feed + 1, Len(chunk)))

\* line.startsWith('data: ')
IsDataLine(line) == line # <<>> /\ line[1].piece = "head"

\* JSON.parse(line.slice(6)) succeeds: the line holds the whole text of one event.
LineParses(line) ==
  /\ Len(line) = 2
  /\ line[1].piece = "head"
  /\ line[2].piece = "tail"
  /\ line[1].event = line[2].event

PendingPromise == [promise |-> "pending", value |-> "none"]

\* fetch(endpoint, ...) answered with the stream: the reader is created, the timer is set.
ClientStart(stream) ==
  [fn |-> "processWithServerSentEvents", input |-> stream, output |-> PendingPromise,
   remaining |-> Bytes(stream), pc |-> "reading", timer |-> "armed", progress |-> <<>>]

\* resolve(value) and reject(reason): a promise settles once, later calls have no effect.
SettlePromise(c, promise, value) ==
  IF c.output.promise = "pending"
  THEN [c EXCEPT !.output = [promise |-> promise, value |-> value]]
  ELSE c

\* The body of the loop over the lines of one read.
ReadLine(c, line) ==
  IF ~(IsDataLine(line) /\ LineParses(line)) THEN c
  ELSE LET data == line[1].event
       IN IF data.type = "complete"
          THEN [SettlePromise(c, "resolved", "result") EXCEPT !.pc = "returned"]
          ELSE IF data.type = "error"
          THEN [SettlePromise(c, "rejected", "error event") EXCEPT !.pc = "returned"]
          ELSE [c EXCEPT !.progress = Append(@, data.id)]

\* for (const line of lines) { ... }: a terminal event returns from readStream.
RECURSIVE ReadLines(_, _)
ReadLines(c, lines) ==
  IF lines = <<>> \/ c.pc = "returned" THEN c
  ELSE ReadLines(ReadLine(c, Head(lines)), Tail(lines))

ClientInit ==
  /\ hasAzureConfig = TRUE
  /\ client = "OpenAI"
  /\ run = [r \in Runs |-> IdleRun]
  /\ probe \in {ClientStart(stream) : stream \in ServerStreams}

\* reader.read() returns the next bytes, however many the transport delivers at once.
Read ==
  /\ probe.pc = "reading"
  /\ probe.remaining # <<>>
  /\ \E n \in 1..Len(probe.remaining) :
       probe' = ReadLines([probe EXCEPT !.remaining = SubSeq(@, n + 1, Len(@))],
                          SplitLines(SubSeq(probe.remaining, 1, n)))
  /\ UNCHANGED <<hasAzureConfig, client, run>>

\* reader.read() returns done: the loop is left and readStream returns.
EndOfStream ==
  /\ probe.pc = "reading"
  /\ probe.remaining = <<>>
  /\ probe' = [probe EXCEPT !.pc = "ended"]
  /\ UNCHANGED <<hasAzureConfig, client, run>>

\* reader.read() rejects: the catch of readStream rejects the promise.
ReadFails ==
  /\ probe.pc = "reading"
  /\ probe' = [SettlePromise(probe, "rejected", "stream error") EXCEPT !.pc = "failed"]
  /\ UNCHANGED <<hasAzureConfig, client, run>>

\* The five-minute timer: if (result === null) reject(new Error('Request timeout')).
Timeout ==
  /\ probe.timer = "armed"
  /\ probe' = [SettlePromise(probe, "rejected", "Request timeout") EXCEPT !.timer = "fired"]
  /\ UNCHANGED <<hasAzureConfig, client, run>>

ClientNext == Read \/ EndOfStream \/ ReadFails \/ Timeout

ClientSpec == ClientInit /\ [][ClientNext]_vars

-----------------------------------------------------------------------------
(* C28 *)

HasComplete(stream) == \E k \in 1..Len(stream) : stream[k].type = "complete"

\* C28 as stated: when the route wrote a 'complete' event and the caller has read the
\* stream to its end or to a terminal event, before the timer and without a read error,
\* the promise is resolved with that event's result, however the bytes were divided
\* into reads.
C28_CompleteEventResolvesPromise ==
  (/\ probe.fn = "processWithServerSentEvents"
   /\ HasComplete(probe.input)
   /\ probe.pc \in {"ended", "returned"}
   /\ probe.timer = "armed")
    => probe.output = [promise |-> "resolved", value |-> "result"]

-----------------------------------------------------------------------------
(* generateCreativeWebsite on content of any size: the summary call and the recursion *)

\* Largest number of summary calls of one invocation of the model.
MaxSummaries == 3

\* const threshold = 50000
ChunkingThreshold == 50000

\* The length of '\n\n[Note: This website is based on a summary of larger content]'.
SummaryNoteLength == 62

\* The length of 'Content analysis unavailable', which stands in for an empty summary.
UnavailableSummaryLength == 28

\* The lengths, in characters, of the content of the requests of the model: below, at and
\* above the threshold of 200,000 characters.
ContentLengths == {100, 200000, 200001, 320000}

\* The lengths of the summaries the model returns: empty, of the size asked for, and
\* around the threshold with and without the note appended.
SummaryLengths == {0, 3200, 199938, 199939, 200000, 200001}

\* estimateTokens of a text of the given length: Math.ceil(text.length / 4).
estimateTokensOfLength(length) == (length + 3) \div 4

\* Mutant of shouldUseChunking: content of exactly the threshold is chunked too.
shouldUseChunkingAtThreshold(length) == estimateTokensOfLength(length) >= ChunkingThreshold

\* shouldUseChunking of a content of the given length.
shouldUseChunking(length) == estimateTokensOfLength(length) > ChunkingThreshold

\* An invocation: content is the length of request.content of the innermost call, calls
\* the model calls issued so far, resp their outcomes, summaries the lengths of the
\* summaries returned.
WebsiteStart(length) ==
  [fn |-> "generateCreativeWebsite", input |-> length, output |-> Returned(NoData),
   content |-> length, pc |-> "called", calls |-> <<>>, resp |-> <<>>, summaries |-> <<>>]

WebsiteReturn(w, outcome) == [w EXCEPT !.output = outcome, !.pc = "returned"]

\* generateCreativeWebsite(request) up to its first await.
WebsiteEntry(w, available) ==
  IF ~available THEN WebsiteReturn(w, createFallbackWebsite("document", 0))
  ELSE IF shouldUseChunking(w.content)
  THEN [w EXCEPT !.calls = Append(@, "summary of chunks[0]"), !.pc = "summarizing"]
  ELSE [w EXCEPT !.calls = Append(@, "website"), !.pc = "generating"]

\* summaryResponse...content || 'Content analysis unavailable', then the note appended.
SummarizedLength(length) ==
  (IF length = 0 THEN UnavailableSummaryLength ELSE length) + SummaryNoteLength

\* The continuation after the summary call: the recursive call on the summarized request,
\* or the fallback website in the catch.
OnSummarySettled(w, modelOutcome, length, available) ==
  LET back == [w EXCEPT !.resp = Append(@, modelOutcome)]
  IN IF modelOutcome = "fail"
     THEN WebsiteReturn(back, createFallbackWebsite("document", 0))
     ELSE WebsiteEntry([back EXCEPT !.content = SummarizedLength(length),
                                    !.summaries = Append(@, length)],
                       available)

\* The continuation after the website call: the parsed website, or the fallback website.
OnWebsiteSettled(w, modelOutcome) ==
  WebsiteReturn([w EXCEPT !.resp = Append(@, modelOutcome)],
                ProcessorResult("generateCreativeWebsite", 0, modelOutcome, TRUE))

WebsiteInit ==
  /\ hasAzureConfig \in BOOLEAN
  /\ client \in {"null", "OpenAI"}
  /\ (client = "OpenAI" => hasAzureConfig)
  /\ run = [r \in Runs |-> IdleRun]
  /\ probe \in {WebsiteStart(length) : length \in ContentLengths}

WebsiteCall ==
  /\ probe.pc = "called"
  /\ probe' = WebsiteEntry(probe, AzureAvailable(client, hasAzureConfig))
  /\ UNCHANGED <<hasAzureConfig, client, run>>

\* The summary call returns a summary or throws.  The model of the recursion stops at
\* MaxSummaries summary calls.
SummarySettles ==
  /\ probe.pc = "summarizing"
  /\ \E modelOutcome \in ModelOutcomes, length \in SummaryLengths :
       /\ (modelOutcome = "ok" /\ shouldUseChunking(SummarizedLength(length)))
            => Len(probe.summaries) + 1 < MaxSummaries
       /\ probe' = OnSummarySettled(probe, modelOutcome, length,
                                    AzureAvailable(client, hasAzureConfig))
  /\ UNCHANGED <<hasAzureConfig, client, run>>

\* The website call returns or throws.
WebsiteSettles ==
  /\ probe.pc = "generating"
  /\ \E modelOutcome \in ModelOutcomes : probe' = OnWebsiteSettled(probe, modelOutcome)
  /\ UNCHANGED <<hasAzureConfig, client, run>>

WebsiteNext == WebsiteCall \/ SummarySettles \/ WebsiteSettles

WebsiteSpec == WebsiteInit /\ [][WebsiteNext]_vars

-----------------------------------------------------------------------------
(* C29 *)

SummaryCalls(w) == Cardinality({k \in 1..Len(w.calls) : w.calls[k] # "website"})

\* C29 as stated: provided every summary the model returned is of at most 50,000 estimated
\* tokens, an invocation issues at most one summary call and at most two model calls.
C29_SmallSummaryEndsRecursion ==
  (/\ probe.fn = "generateCreativeWebsite"
   /\ \A k \in 1..Len(probe.summaries) :
        estimateTokensOfLength(probe.summaries[k]) <= ChunkingThreshold)
    => SummaryCalls(probe) <= 1 /\ Len(probe.calls) <= 2

\* C29 amended: an invocation has exactly one model call in flight until it returns; it
\* issues a summary call, for the first chunk, only for content above 50,000 estimated
\* tokens; provided the summarized content, which is the summary followed by a note of
\* 62 characters, is of at most 50,000 estimated tokens, it issues at most one summary
\* call and at most two model calls; and a failed summary call is the last call, after
\* which the fallback website is returned.
C29_SmallSummarizedContentEndsRecursion ==
  probe.fn = "generateCreativeWebsite" =>
    /\ Len(probe.resp) = Len(probe.calls) - (IF probe.pc \in {"summarizing", "generating"} THEN 1 ELSE 0)
    /\ SummaryCalls(probe) >= 1 => estimateTokensOfLength(probe.input) > ChunkingThreshold
    /\ \A k \in 1..Len(probe.calls) : probe.calls[k] \in {"summary of chunks[0]", "website"}
    /\ (\A k \in 1..Len(probe.summaries) :
          estimateTokensOfLength(probe.summaries[k] + SummaryNoteLength) <= ChunkingThreshold)
         => SummaryCalls(probe) <= 1 /\ Len(probe.calls) <= 2
    /\ \A k \in 1..Len(probe.resp) :
         (probe.calls[k] # "website" /\ probe.resp[k] = "fail")
           => /\ k = Len(probe.calls)
              /\ probe.pc = "returned"
              /\ probe.output = createFallbackWebsite("document", 0)

\* An invocation returned after two model calls, its summarized content being of exactly
\* 50,000 estimated tokens.
C29_Witness ==
  /\ probe.fn = "generateCreativeWebsite"
  /\ probe.pc = "returned"
  /\ Len(probe.calls) = 2
  /\ Len(probe.summaries) = 1
  /\ estimateTokensOfLength(probe.summaries[1] + SummaryNoteLength) = ChunkingThreshold

-----------------------------------------------------------------------------
(* analyzePdfWithVision: page conversion, page analysis and the temporary directory *)

\* const maxPages = 3
maxPages == 3

ConvertOutcomes == {"image", "nothing", "throw"}

AnalysisOutcomes == {"text", "empty", "fail"}

RemovalOutcomes == {"removed", "failed"}

\* An invocation: tempDir is the state of the directory mkdtempSync makes, pageNum the
\* page being converted, convertedPages the number of page images, i the page being
\* analysed, allExtractedText what each analysed page added to the text.
PdfStart ==
  [fn |-> "analyzePdfWithVision", input |-> "temp.pdf", output |-> Returned(NoData),
   tempDir |-> "none", pc |-> "called", pageNum |-> 0, convertedPages |-> 0, i |-> 0,
   allExtractedText |-> <<>>]

\* The outer catch: every error leaves as 'Vision API extraction failed: ...'.
PdfThrow(p, message) ==
  [p EXCEPT !.output = Thrown("Vision API extraction failed: " \o message), !.pc = "thrown"]

\* analyzePdfWithVision up to the conversion of the first page.
PdfEntry(p, available) ==
  IF ~available
  THEN [p EXCEPT !.output = Thrown("Azure OpenAI not configured for Vision API"), !.pc = "thrown"]
  ELSE [p EXCEPT !.tempDir = "present", !.pageNum = 1, !.pc = "converting"]

\* After the conversion loop: no page image is an error, otherwise the first page is
\* sent to the model.
AfterConversion(p) ==
  IF p.convertedPages = 0 THEN PdfThrow(p, "No pages could be converted from PDF")
  ELSE [p EXCEPT !.i = 0, !.pc = "analyzing"]

\* The body of the conversion loop after await convert(pageNum): a page that throws ends
\* the loop.
OnConverted(p, outcome) ==
  IF outcome = "throw" THEN AfterConversion(p)
  ELSE LET pushed == [p EXCEPT !.convertedPages = IF outcome = "image" THEN @ + 1 ELSE @,
                               !.pageNum = @ + 1]
       IN IF pushed.pageNum <= maxPages THEN pushed ELSE AfterConversion(pushed)

\* allExtractedText.trim() is not empty: some page added text or the failure note.
HasContent(allExtractedText) ==
  \E k \in 1..Len(allExtractedText) : allExtractedText[k] # "empty"

\* After the analysis loop: fs.rmSync in its own try, then the result or the error.
CleanUpAndReturn(p, removal) ==
  LET cleaned == [p EXCEPT !.tempDir = IF removal = "removed" THEN "removed" ELSE @]
  IN IF ~HasContent(cleaned.allExtractedText)
     THEN PdfThrow(cleaned, "No content extracted from any pages")
     ELSE [cleaned EXCEPT !.output = Returned(ResultData(<<Part("document", 0, "vision")>>, <<>>)),
                          !.pc = "returned"]

\* The body of the analysis loop after the model call of page i settled.
OnAnalysed(p, outcome, removal) ==
  LET added == [p EXCEPT !.allExtractedText = Append(@, outcome), !.i = @ + 1]
  IN IF added.i < added.convertedPages THEN added ELSE CleanUpAndReturn(added, removal)

PdfInit ==
  /\ hasAzureConfig \in BOOLEAN
  /\ client \in {"null", "OpenAI"}
  /\ (client = "OpenAI" => hasAzureConfig)
  /\ run = [r \in Runs |-> IdleRun]
  /\ probe = PdfStart

PdfCall ==
  /\ probe.pc = "called"
  /\ probe' = PdfEntry(probe, AzureAvailable(client, hasAzureConfig))
  /\ UNCHANGED <<hasAzureConfig, client, run>>

\* pdf2pic answers for one page: an image file, a result without a path, or an error.
ConvertSettles ==
  /\ probe.pc = "converting"
  /\ \E outcome \in ConvertOutcomes : probe' = OnConverted(probe, outcome)
  /\ UNCHANGED <<hasAzureConfig, client, run>>

\* The model call for one page returns text, returns nothing, or throws.
AnalysisSettles ==
  /\ probe.pc = "analyzing"
  /\ \E outcome \in AnalysisOutcomes, removal \in RemovalOutcomes :
       probe' = OnAnalysed(probe, outcome, removal)
  /\ UNCHANGED <<hasAzureConfig, client, run>>

PdfNext == PdfCall \/ ConvertSettles \/ AnalysisSettles

PdfSpec == PdfInit /\ [][PdfNext]_vars

-----------------------------------------------------------------------------
(* C30 *)

\* C30 as stated: an invocation of analyzePdfWithVision that created its temporary
\* directory has removed it when the call has returned or thrown, on every exit path.
C30_TempDirRemovedOnExit ==
  (/\ probe.fn = "analyzePdfWithVision"
   /\ probe.pc \in {"returned", "thrown"}
   /\ probe.tempDir # "none")
    => probe.tempDir = "removed"

====
